---- MODULE Spec2Model ----
(***************************************************************************)
(* p5-mv-renderer: the Analysis Session (src/src/analyzer.js) samples the  *)
(* audio engine once per draw tick and emits a Metadata Track through      *)
(* p.saveJSON; the Render Session (src/src/renderer.js) loads that track   *)
(* and hands one frame per draw tick to the CCapture capturer.             *)
(*                                                                         *)
(* p5 runtime facts the sketches rely on: p.frameCount starts at 0 and is  *)
(* incremented by p5 immediately before every call of p.draw; after        *)
(* p.noLoop() the frame clock stops calling p.draw (a later call of        *)
(* p.redraw() still runs it once).  Levels are kept in hundredths, so that *)
(* the domain [0, 1] of amplitude.getLevel() is 0 .. LevelOne.             *)
(***************************************************************************)
EXTENDS Integers, Sequences, FiniteSets, TLC

VARIABLES
    \* ---- Analysis Session (analyzer.js) ----
    anaSetup,       \* position of the async p.setup: "loading" | "ready" | "failed"
    sound,          \* the p5.SoundFile: "none" | "stopped" | "playing" | "paused"
    asset,          \* which audio file AUDIO_PATH holds (0 until loaded)
    soundPos,       \* playback position of the sound, in ticks of audio
    audioData,      \* const audioData = []
    isPlaying,      \* let isPlaying
    anaFinished,    \* let hasFinished (analyzer.js)
    isSaving,       \* let isSaving
    isReady,        \* let isReady
    anaFrameCount,  \* p.frameCount of the analyzer sketch
    anaLoop,        \* p5's looping flag of the analyzer sketch (p.noLoop clears it)
    saved,          \* the documents handed to p.saveJSON, in call order
    anaTicks,       \* number of p.draw calls so far (bounds the run)
    inputs,         \* number of mouse and key events so far (bounds the run)
    lateSaves,      \* history: saveAudioData calls made after the track was emitted
    resumed,        \* history: how playback was last resumed from Paused, until the next sample
    onAir,          \* history: for each collected sample, sound.isPlaying() at its collection
    \* ---- Render Session (renderer.js) ----
    file,           \* content of /audio-metadata.json, or NoFile
    renPhase,       \* "preload" | "setup" | "running" | "crashed"
    audioInfo,      \* let audioInfo: Undefined | Null | the parsed track
    capturer,       \* let capturer: "undefined" | "CCapture"
    capLog,         \* the calls made on the capturer, in order
    renFinished,    \* let hasFinished (renderer.js)
    renFrameCount,  \* p.frameCount of the renderer sketch
    renLoop,        \* p5's looping flag of the renderer sketch
    captured,       \* the frames handed to capturer.capture, in call order
    renTicks,       \* number of p.draw calls so far (bounds the run)
    \* ---- the browser ----
    console         \* the console.error and console.warn messages, in order

anaVars == <<anaSetup, sound, asset, soundPos, audioData, isPlaying, anaFinished, isSaving, isReady,
             anaFrameCount, anaLoop, saved, anaTicks, inputs, lateSaves, resumed, onAir>>
renVars == <<file, renPhase, audioInfo, capturer, capLog, renFinished, renFrameCount,
             renLoop, captured, renTicks>>
vars == <<anaVars, renVars, console>>

\* ------------------------------------------------------------------ bounds
\* draw ticks of one Analysis Session
MaxTicks == 12
\* mouse and key events of one Analysis Session
MaxInputs == 3
\* draw ticks of one Render Session
MaxRenTicks == 5
\* longest hand-written track file, and largest declared durationInFrames
MaxLen == 3

\* ------------------------------------------------------- program constants
TARGET_FPS == 60
CANVAS_HEIGHT == 1080
\* "if (audioData.length > 10)"
MinDataPoints == 10
\* amplitude.getLevel() = 1.0, in hundredths
LevelOne == 100
\* fft.getEnergy() upper end
EnergyMax == 255

\* JavaScript's undefined and null, and a path with no file behind it
Undefined == [type |-> "undefined"]
Null == [type |-> "null"]
NoFile == <<>>

\* the audio files /nknk.mp3 may be
Assets == {1, 2}

\* What the audio analysis engine reports for the audio at position pos of file a:
\* amplitude.getLevel(), fft.getEnergy("bass"/"mid"/"treble") and fft.analyze().
\* A sound that is not playing feeds silence to the engine.
Reading(a, pos, playing) ==
    IF playing
    THEN [level  |-> (10 * a + 40 * pos) % (LevelOne + 1),
          bass   |-> (10 * a + 95 * pos) % (EnergyMax + 1),
          mid    |-> (20 * a + 80 * pos) % (EnergyMax + 1),
          treble |-> (30 * a + 65 * pos) % (EnergyMax + 1),
          fullSpectrum |-> <<(10 * a + 95 * pos) % (EnergyMax + 1)>>]
    ELSE [level |-> 0, bass |-> 0, mid |-> 0, treble |-> 0, fullSpectrum |-> <<0>>]

\* ================================================================ analyzer

\* String.prototype.toLowerCase on the keys the model presses
ToLowerCase(k) ==
    CASE k = "S" -> "s"
      [] k = "P" -> "p"
      [] OTHER -> k

Keys == {"s", "S", "p", "P", "x"}

\* sound.isPlaying()
SoundIsPlaying == sound = "playing"

\* the sample collectAudioData pushes, given the engine's reading
Sample(fc, r) ==
    [frame |-> fc, level |-> r.level, bass |-> r.bass, mid |-> r.mid,
     treble |-> r.treble, fullSpectrum |-> r.fullSpectrum]

\* mutant: a push that is skipped when the frame number repeats the last one
CollectAudioDataDedup(data, fc, r) ==
    IF Len(data) > 0 /\ data[Len(data)].frame = fc
    THEN data
    ELSE Append(data, Sample(fc, r))

\* collectAudioData: audioData after the push
CollectAudioData(data, fc, r) == Append(data, Sample(fc, r))

\* JSON.stringify of one sample: the fields in insertion order
StringifySample(s) == <<s.frame, s.level, s.bass, s.mid, s.treble, s.fullSpectrum>>

\* mutant: durationInFrames taken from the frame counter
JsonOutputFrameCount(data) ==
    <<TARGET_FPS, anaFrameCount, [i \in 1..Len(data) |-> StringifySample(data[i])]>>

\* the jsonOutput object of saveAudioData, as p.saveJSON writes it
JsonOutput(data) ==
    <<TARGET_FPS, Len(data), [i \in 1..Len(data) |-> StringifySample(data[i])]>>

\* mutant: the guard without the isSaving test
SaveReturnsEarlyNoFlag(saving, data) == Len(data) = 0

\* the guard of saveAudioData: "if (isSaving || audioData.length === 0) return"
SaveReturnsEarly(saving, data) == saving \/ Len(data) = 0

\* mutant: the data-point threshold off by one
EndConditionAtTen(data, sp) ==
    ~sp /\ isPlaying /\ ~isSaving /\ Len(data) >= MinDataPoints

\* the end condition of p.draw, evaluated after collectAudioData
EndCondition(data, sp) == ~sp /\ isPlaying /\ ~isSaving /\ Len(data) > MinDataPoints

\* saveAudioData, applied to the given audioData (the caller sets audioData')
SaveAudioData(data) ==
    /\ lateSaves' = IF isSaving THEN lateSaves + 1 ELSE lateSaves
    /\ IF SaveReturnsEarly(isSaving, data)
       THEN UNCHANGED <<isSaving, isPlaying, sound, soundPos, saved, anaFinished>>
       ELSE /\ isSaving' = TRUE
            /\ isPlaying' = FALSE
            /\ sound' = IF SoundIsPlaying THEN "stopped" ELSE sound
            /\ soundPos' = IF SoundIsPlaying THEN 0 ELSE soundPos
            /\ saved' = Append(saved, JsonOutput(data))
            /\ anaFinished' = TRUE

\* p.setup resolves: the audio asset loaded
AnaSetupOk ==
    /\ anaSetup = "loading"
    /\ anaSetup' = "ready"
    /\ sound' = "stopped"
    /\ \E a \in Assets : asset' = a
    /\ isReady' = TRUE
    /\ UNCHANGED <<soundPos, audioData, isPlaying, anaFinished, isSaving, anaFrameCount,
                   anaLoop, saved, anaTicks, onAir, inputs, lateSaves, resumed, renVars, console>>

\* mutant: a setup that marks the sketch ready although the load failed
AnaSetupFailReady ==
    /\ anaSetup = "loading"
    /\ anaSetup' = "failed"
    /\ anaLoop' = FALSE
    /\ isReady' = TRUE
    /\ console' = Append(console, "error: Failed to load audio")
    /\ UNCHANGED <<sound, asset, soundPos, audioData, isPlaying, anaFinished,
                   isSaving, anaFrameCount, saved, anaTicks, onAir, inputs,
                   lateSaves, resumed, renVars>>

\* p.setup catches the load error
AnaSetupFail ==
    /\ anaSetup = "loading"
    /\ anaSetup' = "failed"
    /\ anaLoop' = FALSE
    /\ console' = Append(console, "error: Failed to load audio")
    /\ UNCHANGED <<sound, asset, soundPos, audioData, isPlaying, anaFinished,
                   isSaving, isReady, anaFrameCount, saved, anaTicks, onAir, inputs,
                   lateSaves, resumed, renVars>>

\* the body of p.draw, run with p.frameCount already incremented to fc
AnaDraw(fc) ==
    /\ anaFrameCount' = fc
    /\ anaTicks' = anaTicks + 1
    /\ IF ~isReady
       THEN UNCHANGED <<audioData, anaLoop, isSaving, isPlaying, sound, soundPos,
                        saved, anaFinished, lateSaves, resumed, onAir>>
       ELSE IF anaFinished
       THEN /\ anaLoop' = FALSE
            /\ UNCHANGED <<audioData, isSaving, isPlaying, sound, soundPos, saved,
                           anaFinished, lateSaves, resumed, onAir>>
       ELSE IF ~isPlaying
       THEN UNCHANGED <<audioData, anaLoop, isSaving, isPlaying, sound, soundPos,
                        saved, anaFinished, lateSaves, resumed, onAir>>
       ELSE /\ audioData' = CollectAudioData(audioData, fc,
                                Reading(asset, soundPos, SoundIsPlaying))
            /\ resumed' = "none"
            /\ onAir' = Append(onAir, SoundIsPlaying)
            /\ anaLoop' = anaLoop
            /\ IF EndCondition(audioData', SoundIsPlaying)
               THEN SaveAudioData(audioData')
               ELSE /\ soundPos' = IF SoundIsPlaying THEN soundPos + 1 ELSE soundPos
                    /\ UNCHANGED <<isSaving, isPlaying, sound, saved, anaFinished,
                                   lateSaves>>
    /\ UNCHANGED <<anaSetup, asset, isReady, inputs, renVars, console>>

\* the frame clock calls p.draw; p5 starts it once the awaited p.setup is over
AnaDrawTick ==
    /\ anaSetup # "loading"
    /\ anaLoop
    /\ anaTicks < MaxTicks
    /\ AnaDraw(anaFrameCount + 1)

\* p.draw run once with the loop stopped (p5's single draw after a setup that
\* called noLoop, or p.redraw())
AnaRedraw ==
    /\ anaSetup # "loading"
    /\ ~anaLoop
    /\ anaTicks < MaxTicks
    /\ AnaDraw(anaFrameCount + 1)

\* mutant: a click that restarts whenever the sketch is ready and not finished
MousePressedRestart ==
    /\ inputs < MaxInputs
    /\ inputs' = inputs + 1
    /\ IF ~isReady \/ anaFinished
       THEN UNCHANGED <<anaFrameCount, sound, isPlaying, resumed>>
       ELSE /\ anaFrameCount' = 0
            /\ sound' = "playing"
            /\ isPlaying' = TRUE
            /\ resumed' = IF sound = "paused" THEN "click" ELSE "none"
    /\ UNCHANGED <<anaSetup, asset, soundPos, audioData, anaFinished, isSaving,
                   isReady, anaLoop, saved, anaTicks, onAir, lateSaves, renVars, console>>

\* p.mousePressed
MousePressed ==
    /\ inputs < MaxInputs
    /\ inputs' = inputs + 1
    /\ IF ~isReady \/ anaFinished
       THEN UNCHANGED <<anaFrameCount, sound, isPlaying, resumed>>
       ELSE IF ~isPlaying
       THEN /\ anaFrameCount' = 0
            /\ sound' = "playing"
            /\ isPlaying' = TRUE
            /\ resumed' = IF sound = "paused" THEN "click" ELSE "none"
       ELSE UNCHANGED <<anaFrameCount, sound, isPlaying, resumed>>
    /\ UNCHANGED <<anaSetup, asset, soundPos, audioData, anaFinished, isSaving,
                   isReady, anaLoop, saved, anaTicks, onAir, lateSaves, renVars, console>>

\* togglePlayback
TogglePlayback ==
    IF ~isReady \/ anaFinished
    THEN UNCHANGED <<sound, isPlaying, resumed>>
    ELSE IF SoundIsPlaying
    THEN /\ sound' = "paused"
         /\ isPlaying' = FALSE
         /\ resumed' = "none"
    ELSE /\ sound' = "playing"
         /\ isPlaying' = TRUE
         /\ resumed' = IF sound = "paused" THEN "key" ELSE "none"

\* p.keyPressed with p.key = k
KeyPressedWith(k) ==
    /\ inputs < MaxInputs
    /\ inputs' = inputs + 1
    /\ IF ToLowerCase(k) = "s"
       THEN SaveAudioData(audioData) /\ resumed' = resumed
       ELSE IF ToLowerCase(k) = "p"
       THEN TogglePlayback /\ UNCHANGED <<isSaving, soundPos, saved, anaFinished,
                                           lateSaves>>
       ELSE UNCHANGED <<isSaving, isPlaying, sound, soundPos, saved, anaFinished,
                        lateSaves, resumed>>
    /\ UNCHANGED <<anaSetup, asset, audioData, isReady, anaFrameCount, anaLoop,
                   anaTicks, onAir, renVars, console>>

\* p.keyPressed
KeyPressed == \E k \in Keys : KeyPressedWith(k)

\* the audio engine reaches the end of the file
AudioEnds ==
    /\ sound = "playing"
    /\ sound' = "stopped"
    /\ soundPos' = 0
    /\ UNCHANGED <<anaSetup, asset, audioData, isPlaying, anaFinished, isSaving,
                   isReady, anaFrameCount, anaLoop, saved, anaTicks, onAir, inputs, lateSaves, resumed, renVars, console>>

AnaInit ==
    /\ anaSetup = "loading"
    /\ sound = "none"
    /\ asset = 0
    /\ soundPos = 0
    /\ audioData = <<>>
    /\ isPlaying = FALSE
    /\ anaFinished = FALSE
    /\ isSaving = FALSE
    /\ isReady = FALSE
    /\ anaFrameCount = 0
    /\ anaLoop = TRUE
    /\ saved = <<>>
    /\ anaTicks = 0
    /\ inputs = 0
    /\ lateSaves = 0
    /\ resumed = "none"
    /\ onAir = <<>>

\* ================================================================ renderer

Min(a, b) == IF a <= b THEN a ELSE b

\* mutant: two fields read back in each other's place
ParseSampleSwapped(t) ==
    [frame |-> t[1], level |-> t[2], bass |-> t[3], mid |-> t[5], treble |-> t[4],
     fullSpectrum |-> t[6]]

\* JSON.parse of one sample
ParseSample(t) ==
    [frame |-> t[1], level |-> t[2], bass |-> t[3], mid |-> t[4], treble |-> t[5],
     fullSpectrum |-> t[6]]

\* p.loadJSON of a track document. A document lists its members in the order
\* targetFps, durationInFrames, data; a document of two members has no data and
\* a document of one member has only its data.
ParseTrack(doc) ==
    CASE Len(doc) = 3 ->
           [targetFps |-> doc[1], durationInFrames |-> doc[2],
            data |-> [i \in 1..Len(doc[3]) |-> ParseSample(doc[3][i])]]
      [] Len(doc) = 2 ->
           [targetFps |-> doc[1], durationInFrames |-> doc[2]]
      [] Len(doc) = 1 ->
           [data |-> [i \in 1..Len(doc[1]) |-> ParseSample(doc[1][i])]]

\* p.map(n, start1, stop1, start2, stop2), times (stop1 - start1) to stay integral
PMap(n, start1, stop1, start2, stop2) ==
    (n - start1) * (stop2 - start2) + start2 * (stop1 - start1)

\* mutant: a mapper that also reads the session's frame counter
DrawVisualsAnimated(frameData) ==
    [circleSize   |-> PMap(frameData.level, 0, LevelOne, 150, (CANVAS_HEIGHT * 8) \div 10)
                        + renFrameCount,
     bassHeight   |-> PMap(frameData.bass, 0, EnergyMax, 0, (CANVAS_HEIGHT * 9) \div 10),
     midHeight    |-> PMap(frameData.mid, 0, EnergyMax, 0, (CANVAS_HEIGHT * 9) \div 10),
     trebleHeight |-> PMap(frameData.treble, 0, EnergyMax, 0, (CANVAS_HEIGHT * 9) \div 10)]

\* drawVisuals: the sizes it draws (circleSize in 1/LevelOne px, heights in 1/EnergyMax px)
DrawVisuals(frameData) ==
    [circleSize   |-> PMap(frameData.level, 0, LevelOne, 150, (CANVAS_HEIGHT * 8) \div 10),
     bassHeight   |-> PMap(frameData.bass, 0, EnergyMax, 0, (CANVAS_HEIGHT * 9) \div 10),
     midHeight    |-> PMap(frameData.mid, 0, EnergyMax, 0, (CANVAS_HEIGHT * 9) \div 10),
     trebleHeight |-> PMap(frameData.treble, 0, EnergyMax, 0, (CANVAS_HEIGHT * 9) \div 10)]

\* "!audioInfo"
NoAudioInfo == audioInfo \in {Undefined, Null}

\* mutant: the frame counter used as the index, without the 1-based correction
FrameIndexOneBased(fc) == fc

\* "const frameIndex = p.frameCount - 1"
FrameIndex(fc) == fc - 1

\* mutant: the completion check off by one
PastDurationStrict(frameIndex) == frameIndex > audioInfo.durationInFrames

\* "frameIndex >= audioInfo.durationInFrames": false against undefined
PastDuration(frameIndex) ==
    /\ "durationInFrames" \in DOMAIN audioInfo
    /\ frameIndex >= audioInfo.durationInFrames

\* "audioInfo.data[frameIndex]" throws a TypeError when audioInfo.data is undefined
LookupThrows == "data" \notin DOMAIN audioInfo

\* mutant: a lookup that falls back to the last sample past the end
FrameDataClamped(frameIndex) ==
    IF Len(audioInfo.data) = 0
    THEN Undefined
    ELSE audioInfo.data[Min(Len(audioInfo.data), frameIndex + 1)]

\* "audioInfo.data[frameIndex]": the zero-based lookup, Undefined past the end
FrameData(frameIndex) ==
    IF frameIndex >= 0 /\ frameIndex < Len(audioInfo.data)
    THEN audioInfo.data[frameIndex + 1]
    ELSE Undefined

\* mutant: finishRendering that forgets to set hasFinished
FinishRenderingNoFlag ==
    /\ renFinished' = renFinished
    /\ renLoop' = FALSE
    /\ capLog' = capLog \o <<"stop", "save">>

\* finishRendering
FinishRendering ==
    IF renFinished
    THEN UNCHANGED <<renFinished, renLoop, capLog>>
    ELSE /\ renFinished' = TRUE
         /\ renLoop' = FALSE
         /\ capLog' = capLog \o <<"stop", "save">>

\* p.preload: loadJSON calls back with the parsed document
RenPreloadOk ==
    /\ renPhase = "preload"
    /\ file # NoFile
    /\ audioInfo' = ParseTrack(file)
    /\ renPhase' = "setup"
    /\ UNCHANGED <<file, capturer, capLog, renFinished, renFrameCount, renLoop,
                   captured, renTicks, anaVars, console>>

\* p.preload: loadJSON calls back with an error
RenPreloadFail ==
    /\ renPhase = "preload"
    /\ audioInfo' = Null
    /\ renPhase' = "setup"
    /\ console' = Append(console, "error: Failed to load audio-metadata.json")
    /\ UNCHANGED <<file, capturer, capLog, renFinished, renFrameCount, renLoop,
                   captured, renTicks, anaVars>>

\* p.setup (renderer.js)
RenSetup ==
    /\ renPhase = "setup"
    /\ renPhase' = "running"
    /\ IF NoAudioInfo
       THEN /\ renLoop' = FALSE
            /\ UNCHANGED <<capturer, capLog>>
       ELSE /\ capturer' = "CCapture"
            /\ capLog' = Append(capLog, "start")
            /\ renLoop' = renLoop
    /\ UNCHANGED <<file, audioInfo, renFinished, renFrameCount, captured, renTicks,
                   anaVars, console>>

\* the body of p.draw (renderer.js), run with p.frameCount already incremented
\* to fc. An exception thrown by p.draw leaves p5's frame callback before it
\* asks for the next animation frame, so no draw call follows it.
RenDraw(fc) ==
    /\ renFrameCount' = fc
    /\ renTicks' = renTicks + 1
    /\ IF NoAudioInfo \/ renFinished
       THEN UNCHANGED <<renFinished, renLoop, capLog, captured, console, renPhase>>
       ELSE IF PastDuration(FrameIndex(fc))
       THEN FinishRendering /\ UNCHANGED <<captured, console, renPhase>>
       ELSE IF LookupThrows
       THEN /\ renPhase' = "crashed"
            /\ console' = Append(console, "error: Uncaught TypeError")
            /\ UNCHANGED <<renFinished, renLoop, capLog, captured>>
       ELSE IF FrameData(FrameIndex(fc)) = Undefined
       THEN /\ console' = Append(console, "warn: No data for frame index")
            /\ FinishRendering
            /\ UNCHANGED <<captured, renPhase>>
       ELSE /\ captured' = Append(captured,
                              [index   |-> FrameIndex(fc),
                               sample  |-> FrameData(FrameIndex(fc)),
                               visuals |-> DrawVisuals(FrameData(FrameIndex(fc)))])
            /\ capLog' = Append(capLog, "capture")
            /\ UNCHANGED <<renFinished, renLoop, console, renPhase>>
    /\ UNCHANGED <<file, audioInfo, capturer, anaVars>>

\* the frame clock calls p.draw
RenDrawTick ==
    /\ renPhase = "running"
    /\ renLoop
    /\ renTicks < MaxRenTicks
    /\ RenDraw(renFrameCount + 1)

\* p.draw run once with the loop stopped (p5's single draw after a setup that
\* called noLoop, or p.redraw())
RenRedraw ==
    /\ renPhase = "running"
    /\ ~renLoop
    /\ renTicks < MaxRenTicks
    /\ RenDraw(renFrameCount + 1)

\* a hand-written sample sequence of length n: the samples of audio file a,
\* numbered from base
HandData(n, a, base) ==
    [i \in 1..n |-> Sample(base + i - 1, Reading(a, i - 1, TRUE))]

\* the track documents /audio-metadata.json may hold: any declared
\* durationInFrames against any number of samples
TrackFiles ==
    { <<TARGET_FPS, d, [i \in 1..n |-> StringifySample(HandData(n, a, base)[i])]>> :
        d \in 0..MaxLen, n \in 0..MaxLen, a \in Assets, base \in {0, 1} }

RenFresh ==
    /\ renPhase = "preload"
    /\ audioInfo = Undefined
    /\ capturer = "undefined"
    /\ capLog = <<>>
    /\ renFinished = FALSE
    /\ renFrameCount = 0
    /\ renLoop = TRUE
    /\ captured = <<>>
    /\ renTicks = 0

InitR == AnaInit /\ file \in TrackFiles \cup {NoFile} /\ RenFresh /\ console = <<>>

NextR ==
    \/ RenPreloadOk
    \/ RenPreloadFail
    \/ RenSetup
    \/ RenDrawTick
    \/ RenRedraw

\* one Render Session over any track file
SpecR == InitR /\ [][NextR]_vars

\* the documents that parse as JSON but are no track: durationInFrames without
\* data, and data without durationInFrames
MalformedFiles ==
    { <<TARGET_FPS, d>> : d \in 0..MaxLen }
    \cup { << [i \in 1..n |-> StringifySample(HandData(n, a, base)[i])] >> :
             n \in 0..MaxLen, a \in Assets, base \in {0, 1} }

Malformed(doc) == Len(doc) # 3

\* one-sample track documents whose values lie inside, on the edge of and
\* outside the engine's ranges (level: 0..LevelOne, energies: 0..EnergyMax)
WideFiles ==
    { <<TARGET_FPS, 1, << <<1, l, b, m, t, <<b>> >> >> >> :
        l \in {0 - 50, 0, 50, LevelOne, LevelOne + 50},
        b \in {0 - 10, 0, EnergyMax, EnergyMax + 45},
        m \in {128, EnergyMax + 45},
        t \in {0, 0 - 10} }

InitV == AnaInit /\ file \in WideFiles /\ RenFresh /\ console = <<>>

\* one Render Session over a one-sample track of any values
SpecV == InitV /\ [][NextR]_vars

InitM == AnaInit /\ file \in MalformedFiles /\ RenFresh /\ console = <<>>

\* one Render Session over a malformed track file
SpecM == InitM /\ [][NextR]_vars

\* the same, with the load calling back, p5 running setup after it and the
\* frame clock delivering draw calls for as long as the loop runs
SpecMLive ==
    /\ InitM /\ [][NextR]_vars
    /\ WF_vars(RenPreloadOk \/ RenPreloadFail)
    /\ WF_vars(RenSetup)
    /\ WF_vars(RenDrawTick)

\* the same over well-formed track files
SpecRLive ==
    /\ InitR /\ [][NextR]_vars
    /\ WF_vars(RenPreloadOk \/ RenPreloadFail)
    /\ WF_vars(RenSetup)
    /\ WF_vars(RenDrawTick)

InitA == AnaInit /\ file = NoFile /\ RenFresh /\ console = <<>>

NextA ==
    \/ AnaSetupOk
    \/ AnaSetupFail
    \/ AnaDrawTick
    \/ AnaRedraw
    \/ MousePressed
    \/ KeyPressed
    \/ AudioEnds

\* one Analysis Session
SpecA == InitA /\ [][NextA]_vars

\* ================================================================ hand-off

\* the user moves the downloaded audio-metadata.json into /public
PlaceFile ==
    /\ file = NoFile
    /\ Len(saved) >= 1
    /\ file' = saved[1]
    /\ UNCHANGED <<renPhase, audioInfo, capturer, capLog, renFinished, renFrameCount,
                   renLoop, captured, renTicks, anaVars, console>>

\* one sketch runs per page load: the analysis comes first; the render page is
\* opened once the track file is in place, or without one after the analysis
\* failed to load its audio, and the analysis page is left from then on
InAnalysis == file = NoFile /\ renPhase = "preload"
InRender == file # NoFile \/ anaSetup = "failed"

Init == InitA

\* the Analysis Session is kept to MaxLen draw ticks here, so that the Render
\* Session can replay all of the track within MaxRenTicks
Next ==
    \/ InAnalysis /\ AnaSetupOk
    \/ InAnalysis /\ AnaSetupFail
    \/ InAnalysis /\ anaTicks < MaxLen /\ AnaDrawTick
    \/ InAnalysis /\ anaTicks < MaxLen /\ AnaRedraw
    \/ InAnalysis /\ MousePressed
    \/ InAnalysis /\ KeyPressed
    \/ InAnalysis /\ AudioEnds
    \/ PlaceFile
    \/ InRender /\ RenPreloadOk
    \/ InRender /\ RenPreloadFail
    \/ InRender /\ RenSetup
    \/ InRender /\ RenDrawTick
    \/ InRender /\ RenRedraw

\* an Analysis Session, the hand-off of its track, and a Render Session over it
Spec == Init /\ [][Next]_vars

\* ================================================================== claims


\* the Render Session has loaded a track
Loaded == ~NoAudioInfo

\* a draw call of the Analysis Session
AnaTickStep == anaTicks' = anaTicks + 1

\* the Analysis Session is Playing (sampling) and not yet Finished
Playing == isReady /\ isPlaying /\ ~anaFinished

\* C2 (as claimed): in every emitted track the frame values are consecutive,
\* data[i+1].frame = data[i].frame + 1.
C2_FramesContiguous ==
    \A k \in 1..Len(saved) :
        \A i \in 1..(Len(saved[k][3]) - 1) :
            saved[k][3][i + 1][1] = saved[k][3][i][1] + 1

\* C3: every emitted track declares as durationInFrames the number of samples
\* it carries, which is the number of samples collected.
C3_DurationIsLength ==
    \A k \in 1..Len(saved) :
        /\ saved[k][2] = Len(saved[k][3])
        /\ saved[k][2] = Len(audioData)

C3_Witness == Len(saved) = 1 /\ sound = "paused" /\ Len(audioData) >= 2

\* C4: the track is emitted at most once, exactly when the session is Finished,
\* and once Finished no save request, click, key or draw call changes the
\* session's flags, its samples, its sound or what was emitted.
C4_EmittedOnce ==
    /\ [](Len(saved) <= 1 /\ (anaFinished <=> Len(saved) = 1))
    /\ [][anaFinished =>
            UNCHANGED <<saved, anaFinished, isSaving, isPlaying, audioData, sound>>]_vars

C4_Witness == anaFinished /\ lateSaves >= 1 /\ Len(saved) = 1

C7_ResumeContinues ==
    [][(resumed # "none" /\ Len(audioData) >= 1 /\ Len(audioData') = Len(audioData) + 1) =>
          audioData'[Len(audioData')].frame = audioData[Len(audioData)].frame + 1]_vars

\* C8 (as claimed): every sample the Render Session submits carries as frame
\* the zero-based index at which the renderer looked it up.
C8_FrameIsIndex ==
    \A i \in 1..Len(captured) : captured[i].sample.frame = captured[i].index

\* C9: what the Render Session holds is the parsed track file for as long as it
\* runs, and the sample it submits at tick i is, field for field, the i-th
\* sample the Analysis Session collected.
C9_RoundTrip ==
    /\ Loaded =>
          /\ audioInfo = ParseTrack(file)
          /\ audioInfo.data = audioData
          /\ audioInfo.durationInFrames = Len(audioData)
    /\ \A i \in 1..Len(captured) :
          /\ i <= Len(audioData)
          /\ captured[i].sample = audioData[i]

C9_Witness == Len(captured) >= 2 /\ renFinished

\* C1: while capturing, the frames handed to capturer.capture are the samples
\* data[0], data[1], ... of the track file, in index order from 0, one per draw
\* tick, none skipped and none submitted twice.
C1_FramesInOrder ==
    /\ \A i \in 1..Len(captured) :
          /\ captured[i].index = i - 1
          /\ i <= Len(file[3])
          /\ captured[i].sample = ParseSample(file[3][i])
    /\ (Loaded /\ ~renFinished) => Len(captured) = renTicks

C1_Witness == Len(captured) = MaxLen /\ ~renFinished

\* the capturer has been told to stop
Finalized == \E i \in 1..Len(capLog) : capLog[i] = "stop"

\* C5: a Finished Render Session has finalized the capturer, and once finalized
\* the capturer's calls are start, one capture per submitted frame, then stop and
\* save once each and last, whatever draw calls follow.
C5_FinalizedOnce ==
    /\ renFinished => Finalized
    /\ Finalized =>
          capLog = <<"start">> \o [i \in 1..Len(captured) |-> "capture"]
                              \o <<"stop", "save">>

C5_Witness == renFinished /\ renTicks >= Len(captured) + 3 /\ Len(captured) >= 1

\* C10: a finished Render Session has submitted exactly min(durationInFrames,
\* number of samples) frames, and a track of duration 0 finishes on the first
\* draw tick with nothing submitted.
C10_FrameCount ==
    /\ renFinished =>
          Len(captured) = Min(audioInfo.durationInFrames, Len(audioInfo.data))
    /\ (Loaded /\ audioInfo.durationInFrames = 0 /\ renTicks >= 1) =>
          (renFinished /\ captured = <<>>)

C10_Witness ==
    /\ renFinished
    /\ renTicks = 1
    /\ audioInfo.durationInFrames = 0
    /\ Len(audioInfo.data) > 0

\* C11: with durationInFrames larger than the number of samples, every tick
\* up to the number of samples submits its sample, in order, and the first tick
\* whose sample is missing logs one warning and finishes the session: the
\* capturer is stopped and saved once, no frame is submitted for the missing
\* index, and the loop is stopped.
C11_MissingSampleFinishes ==
    (Loaded /\ audioInfo.durationInFrames > Len(audioInfo.data)) =>
        LET n == Len(audioInfo.data) IN
        /\ renTicks <= n =>
              (~renFinished /\ Len(captured) = renTicks /\ console = <<>>)
        /\ renTicks > n =>
              /\ renFinished /\ ~renLoop
              /\ Len(captured) = n
              /\ \A i \in 1..n : /\ captured[i].index = i - 1
                                 /\ captured[i].sample = audioInfo.data[i]
              /\ console = <<"warn: No data for frame index">>
              /\ capLog = <<"start">> \o [i \in 1..n |-> "capture"]
                                      \o <<"stop", "save">>

C11_Witness ==
    /\ renFinished
    /\ Len(captured) = 2
    /\ audioInfo.durationInFrames = 3
    /\ renTicks >= 4

\* C12: a failed load is terminal and silent. After a failed audio load the
\* Analysis Session never plays, collects or emits anything, whatever clicks,
\* keys and draw calls follow; after a failed track load the Render Session
\* never creates or starts the capturer, submits no frame and never finalizes.
C12_LoadFailureTerminal ==
    /\ anaSetup = "failed" =>
          /\ saved = <<>> /\ audioData = <<>>
          /\ ~isPlaying /\ ~isSaving /\ ~anaFinished
          /\ sound = "none"
    /\ (renPhase # "preload" /\ audioInfo = Null) =>
          /\ capturer = "undefined" /\ capLog = <<>> /\ captured = <<>>
          /\ ~renFinished

C12_Witness ==
    /\ anaSetup = "failed" /\ inputs = MaxInputs /\ anaTicks >= 1
    /\ renPhase = "running" /\ audioInfo = Null /\ renTicks >= 2

\* C13: a track document that loads but lacks data or durationInFrames puts
\* the Render Session in LoadFailed at load time: the capturer is neither
\* created nor started, the loop is stopped, and no frame is looked up or
\* submitted.
C13_MalformedIsLoadFailed ==
    (Malformed(file) /\ renPhase \notin {"preload", "setup"}) =>
        /\ capturer = "undefined" /\ capLog = <<>> /\ captured = <<>>
        /\ ~renLoop /\ ~renFinished
        /\ renPhase # "crashed"

\* an operation invoked in a state where its guard turns it away: a renderer
\* draw call with no track loaded or after finishing, a click when not ready,
\* already playing or finished, a 'p' when not ready or finished, an 's' with
\* nothing collected or after the track was emitted
InvalidOp ==
    \/ (RenDrawTick \/ RenRedraw) /\ (NoAudioInfo \/ renFinished)
    \/ MousePressed /\ (~isReady \/ anaFinished \/ isPlaying)
    \/ (KeyPressedWith("p") \/ KeyPressedWith("P")) /\ (~isReady \/ anaFinished)
    \/ (KeyPressedWith("s") \/ KeyPressedWith("S")) /\ (isSaving \/ audioData = <<>>)

\* C14 as claimed: an operation invoked in a state where it is not valid is
\* signalled as an error at once (a message on the console).
C14_InvalidSignalled == [][InvalidOp => console' # console]_vars

\* C14: an operation invoked in a state where it is not valid is ignored
\* silently: nothing is written to the console and neither session changes
\* (the sound, the collected samples, the flags, the analyzer's frame counter,
\* the emitted tracks, the capturer and its frames all stay as they were).
C14_InvalidIgnored ==
    [][InvalidOp =>
         UNCHANGED <<console, anaSetup, sound, asset, soundPos, audioData, isPlaying,
                     anaFinished, isSaving, isReady, anaFrameCount, anaLoop, saved,
                     file, renPhase, audioInfo, capturer, capLog, renFinished,
                     renLoop, captured>>]_vars

C14_Witness ==
    /\ lateSaves >= 1
    /\ renFinished /\ renTicks >= Len(captured) + 2

\* the frame the renderer submits for the i-th sample of a track document
FrameOf(doc, i) ==
    [index   |-> i - 1,
     sample  |-> ParseSample(doc[3][i]),
     visuals |-> DrawVisuals(ParseSample(doc[3][i]))]

\* C15: what a loaded Render Session has submitted, the capturer calls it has
\* made and whether it has finished are functions of the track document and of
\* the number of draw ticks alone; so two sessions given the same track submit
\* the same frames in the same order and finish after the same number of ticks.
C15_FunctionOfTrack ==
    (Loaded /\ renPhase = "running") =>
        LET k == Min(file[2], Len(file[3]))
            m == Min(renTicks, k)
        IN  /\ captured = [i \in 1..m |-> FrameOf(file, i)]
            /\ renFinished = (renTicks > k)
            /\ capLog = <<"start">> \o [i \in 1..m |-> "capture"]
                          \o (IF renTicks > k THEN <<"stop", "save">> ELSE <<>>)

C15_Witness ==
    /\ renFinished
    /\ Len(captured) = MaxLen
    /\ audioInfo.durationInFrames = MaxLen

\* C16: for every sample value, out-of-domain ones included, the mapped circle
\* size stays inside [150, 0.8 * height] and the mapped bar heights inside
\* [0, 0.9 * height] (sizes in 1/LevelOne px, heights in 1/EnergyMax px).
C16_MappedInRange ==
    \A i \in 1..Len(captured) :
        LET v == captured[i].visuals IN
        /\ v.circleSize >= 150 * LevelOne
        /\ v.circleSize <= ((CANVAS_HEIGHT * 8) \div 10) * LevelOne
        /\ \A h \in {v.bassHeight, v.midHeight, v.trebleHeight} :
              h >= 0 /\ h <= ((CANVAS_HEIGHT * 9) \div 10) * EnergyMax

\* C17 (as claimed): a step that starts sampling from Idle (the sound never
\* started) resets the frame counter to 0, by click or by 'p' alike, and a step
\* that starts sampling from Paused leaves the frame counter untouched.
C17_StartResetsCounter ==
    [][(~isPlaying /\ isPlaying') =>
          IF sound = "paused"
          THEN anaFrameCount' = anaFrameCount
          ELSE anaFrameCount' = 0]_vars

\* C18: a draw tick taken while Playing appends exactly one sample to the
\* collected track and keeps the earlier ones; a draw tick taken in any other
\* state (not ready, Idle, Paused, Finished, LoadFailed), the one right after a
\* pause included, leaves the collected track as it was.
C18_TickEffect ==
    [][AnaTickStep =>
          IF Playing
          THEN /\ Len(audioData') = Len(audioData) + 1
               /\ SubSeq(audioData', 1, Len(audioData)) = audioData
          ELSE audioData' = audioData]_vars

C18_Witness ==
    /\ sound = "paused" /\ ~isPlaying
    /\ Len(audioData) = 2 /\ audioData[2].frame = 2
    /\ anaFrameCount = 3 /\ anaTicks = 3

\* the Render Session ended its load without a track
LoadFailed == renPhase = "running" /\ NoAudioInfo

\* C19: every Render Session eventually reaches Finished or LoadFailed.
C19_EventuallyTerminal == <>(renFinished \/ LoadFailed)

\* C20 (as claimed): every collected sample, and so every sample of an
\* emitted track, was collected on a tick at which the sound was playing: none
\* while it was paused or after it had stopped, the tick that detects the
\* natural completion and the ticks that wait for the threshold included.
C20_SamplesOnAir == \A i \in 1..Len(onAir) : onAir[i]

====
